---- MODULE Spec2Model ----
(***************************************************************************)
(* Model of the calisthenics routine timer (rutina-calistenia/src/App.tsx). *)
(*                                                                         *)
(* The program of steps is built once by buildProgram; the component       *)
(* CalisthenicsRoutineApp keeps the session in React state (idx, remaining,*)
(* running, muted, enteredFs) and drives it from a one-second interval     *)
(* registered by an effect, from the keyboard and from the buttons.        *)
(*                                                                         *)
(* One action models one event handler together with the commit it causes: *)
(* the state writes, and the tick effect's cleanup and re-run when one of   *)
(* its dependencies [running, idx, muted] changed.                         *)
(***************************************************************************)
EXTENDS Integers, Sequences, FiniteSets, TLC

\* ---------------------------------------------------------------- bounds
\* Exercise durations range over 1..MaxDuration seconds.
MaxDuration == 3
\* Each of the three exercise lists holds 1..MaxListLen exercises.
MaxListLen == 2
\* The strength block is repeated 1..MaxRounds times.
MaxRounds == 2
\* The ticks of a running session are counted up to MaxTicks.
MaxTicks == 65
\* The clock is observed SubSteps times in each one-second period.
SubSteps == 2

\* ------------------------------------------------------------- exercises
\* interface Exercise { key; title; cue; duration }: the fields the timer
\* reads are key and duration.  The catalogue gives exercise k a duration
\* that differs from its neighbours', so that a step and the next one are
\* told apart by their durations.
Exercise(k) == [key |-> k, duration |-> ((k - 1) % MaxDuration) + 1]

\* The exercise list made of n catalogue entries following entry `from`.
ExerciseList(from, n) == [i \in 1..n |-> Exercise(from + i)]

\* interface Step extends Exercise { phase; indexInPhase; totalInPhase }
Step(e, phase, indexInPhase, totalInPhase) ==
    [key |-> e.key, duration |-> e.duration, phase |-> phase,
     indexInPhase |-> indexInPhase, totalInPhase |-> totalInPhase]

StrengthRound_NumberedPerRound(strengthCore, strengthRounds, r) ==
    [i \in 1..Len(strengthCore) |->
        Step(strengthCore[i], "Fuerza", i,
             Len(strengthCore) * strengthRounds)]

\* strengthCore.forEach((e, i) => steps.push({...e, phase: "Fuerza", ...}))
\* for round r (0-based); i is 1-based here, so i + 1 of the code is i.
StrengthRound(strengthCore, strengthRounds, r) ==
    [i \in 1..Len(strengthCore) |->
        Step(strengthCore[i], "Fuerza",
             r * Len(strengthCore) + i,
             Len(strengthCore) * strengthRounds)]

\* for (let r = 0; r < strengthRounds; r++) { ... } starting at round r.
RECURSIVE StrengthFrom(_, _, _)
StrengthFrom(strengthCore, strengthRounds, r) ==
    IF r < strengthRounds
    THEN StrengthRound(strengthCore, strengthRounds, r)
         \o StrengthFrom(strengthCore, strengthRounds, r + 1)
    ELSE << >>

\* The loop of the strength rounds, as buildProgram runs it.
strengthSteps_OneRoundMore(strengthCore, strengthRounds) ==
    StrengthFrom(strengthCore, strengthRounds + 1, 0)

strengthSteps(strengthCore, strengthRounds) ==
    StrengthFrom(strengthCore, strengthRounds, 0)

buildProgram_CooldownBeforeStrength(warmup, strengthCore, cooldown, strengthRounds) ==
    [i \in 1..Len(warmup) |->
        Step(warmup[i], "Calentamiento", i, Len(warmup))]
    \o [i \in 1..Len(cooldown) |->
        Step(cooldown[i], "Estiramientos", i, Len(cooldown))]
    \o strengthSteps(strengthCore, strengthRounds)

\* function buildProgram(): Step[]
buildProgram(warmup, strengthCore, cooldown, strengthRounds) ==
    [i \in 1..Len(warmup) |->
        Step(warmup[i], "Calentamiento", i, Len(warmup))]
    \o strengthSteps(strengthCore, strengthRounds)
    \o [i \in 1..Len(cooldown) |->
        Step(cooldown[i], "Estiramientos", i, Len(cooldown))]

\* The module's constants warmup, strengthCore, cooldown and strengthRounds.
Config(warmup, strengthCore, cooldown, strengthRounds) ==
    [warmup |-> warmup, strengthCore |-> strengthCore,
     cooldown |-> cooldown, strengthRounds |-> strengthRounds]

\* const PROGRAM = buildProgram(), for the constants c.
programOf(c) ==
    buildProgram(c.warmup, c.strengthCore, c.cooldown, c.strengthRounds)

\* The constants the sessions of the model are run on: the three lists are
\* consecutive slices of the catalogue starting after entry `first`, of every
\* length 1..MaxListLen, with 1..MaxRounds rounds.
Configs ==
    { Config(ExerciseList(first, nw), ExerciseList(first + nw, ns),
             ExerciseList(first + nw + ns, nc), rounds) :
        first \in 0..(MaxDuration - 1),
        nw \in 1..MaxListLen, ns \in 1..MaxListLen,
        nc \in 1..MaxListLen, rounds \in 1..MaxRounds }

\* The programs built from them.
Programs == { programOf(c) : c \in Configs }

\* The constants of the source: five warm-up, five strength and five
\* cool-down exercises of 60 s each, and const strengthRounds = 2.
BuiltinConfig ==
    Config([i \in 1..5 |-> [key |-> i, duration |-> 60]],
           [i \in 1..5 |-> [key |-> 5 + i, duration |-> 60]],
           [i \in 1..5 |-> [key |-> 10 + i, duration |-> 60]],
           2)

\* Every sequence over S of length 0..n.
SeqsUpTo(S, n) == UNION { [1..k -> S] : k \in 0..n }

\* The inputs buildProgram is applied to on its own: every list of at most
\* MaxListLen exercises out of two, the empty list included, and 0..MaxRounds
\* rounds.
BuildInputs ==
    { Config(w, s, c, rounds) :
        w \in SeqsUpTo({Exercise(1), Exercise(2)}, MaxListLen),
        s \in SeqsUpTo({Exercise(1), Exercise(2)}, MaxListLen),
        c \in SeqsUpTo({Exercise(1), Exercise(2)}, MaxListLen),
        rounds \in 0..MaxRounds }

\* ------------------------------------------------------------------ state
VARIABLES
    config,       \* the constants warmup, strengthCore, cooldown, strengthRounds
    PROGRAM,      \* const PROGRAM = buildProgram(), fixed for the session
    idx,          \* useState(0): 0-based index of the current step
    remaining,    \* useState(PROGRAM[0].duration): seconds left in the step
    running,      \* useState(false)
    muted,        \* useState(false)
    enteredFs,    \* useState(false)
    fsEl,         \* document.fullscreenElement is set
    intervalRef,  \* intervalRef.current: 0 for null, 1 for a timer handle
    timers,       \* number of interval timers registered with the window
    beepPlays,    \* number of beepRef.play() calls made by the last event
    threw,        \* the last event raised an uncaught TypeError
    sideEffect,   \* how the last event's play() or fullscreen request settled
    ticks,        \* number of ticks counted in a running session
    sinceArm,     \* clock observations since the interval was armed or fired
    lastOp,       \* the last event handled
    prev,         \* session state before the last event
    toggles,      \* length of the current run of togglePlay calls (1 or 2)
    before        \* session state before the first togglePlay of that run

vars == <<config, PROGRAM, idx, remaining, running, muted, enteredFs, fsEl,
          intervalRef, timers, beepPlays, threw, sideEffect, ticks, sinceArm,
          lastOp, prev, toggles, before>>

\* The SessionState of the controller.
session ==
    [idx |-> idx, remaining |-> remaining, running |-> running, muted |-> muted]

NoSnapshot == << >>

\* PROGRAM.length - 1
lastIndex == Len(PROGRAM) - 1

\* PROGRAM[i].duration for a 0-based i; indexing outside the array yields
\* undefined, and reading .duration of undefined raises a TypeError.
InRange(i) == i \in 0..lastIndex
durationAt(i) == PROGRAM[i + 1].duration

\* Math.min
Min(a, b) == IF a <= b THEN a ELSE b

\* PROGRAM.slice(0, i).reduce((a, s) => a + s.duration, 0)
RECURSIVE sumBefore(_)
sumBefore(i) == IF i <= 0 THEN 0 ELSE sumBefore(i - 1) + durationAt(i - 1)

\* const TOTAL_SECONDS = PROGRAM.reduce((acc, s) => acc + s.duration, 0)
TOTAL_SECONDS == sumBefore(Len(PROGRAM))

elapsedTotal_IncludesCurrent ==
    sumBefore(idx + 1) + (durationAt(idx) - remaining)

\* const elapsedTotal = useMemo(() => PROGRAM.slice(0, idx).reduce(...) +
\*                                    (current.duration - remaining), ...)
elapsedTotal == sumBefore(idx) + (durationAt(idx) - remaining)

\* const totalProgress = Math.min(1, elapsedTotal / TOTAL_SECONDS), kept as
\* the fraction num / den (TOTAL_SECONDS > 0): min(1, e/T) = min(T, e) / T.
totalProgress == [num |-> Min(TOTAL_SECONDS, elapsedTotal), den |-> TOTAL_SECONDS]

\* Array.prototype.slice(start, end) for 0 <= start <= end: the elements at
\* the 0-based indices start .. min(end, length) - 1.
slice(arr, start, end) == SubSeq(arr, start + 1, Min(end, Len(arr)))

UpcomingList_FourSteps(currentIdx) ==
    slice(PROGRAM, currentIdx + 1, currentIdx + 5)

\* function UpcomingList({ currentIdx }): the steps it renders,
\* PROGRAM.slice(currentIdx + 1, currentIdx + 6).  It reads PROGRAM and its
\* argument and writes nothing.
UpcomingList(currentIdx) ==
    slice(PROGRAM, currentIdx + 1, currentIdx + 6)

\* ----------------------------------------------------------- tick effect
\* useEffect(() => { if (!running) return;
\*                   intervalRef.current = window.setInterval(..., 1000);
\*                   return () => { if (intervalRef.current)
\*                                    window.clearInterval(intervalRef.current);
\*                                  intervalRef.current = null; }; },
\*           [running, idx, muted])
\* The state of the timers after a commit that takes the dependencies from
\* <<running, idx, muted>> to <<r1, i1, m1>>: nothing when they are equal;
\* otherwise the previous run's cleanup (there is one when it registered a
\* timer, that is when running held), then the new run.
TickEffect_NoCleanup(r1, i1, m1) ==
    IF <<r1, i1, m1>> = <<running, idx, muted>>
    THEN [intervalRef |-> intervalRef, timers |-> timers]
    ELSE IF r1
         THEN [intervalRef |-> 1, timers |-> timers + 1]
         ELSE [intervalRef |-> intervalRef, timers |-> timers]

TickEffect(r1, i1, m1) ==
    IF <<r1, i1, m1>> = <<running, idx, muted>>
    THEN [intervalRef |-> intervalRef, timers |-> timers]
    ELSE LET cleaned ==
                 IF running
                 THEN [intervalRef |-> 0,
                       timers |-> IF intervalRef # 0 THEN timers - 1 ELSE timers]
                 ELSE [intervalRef |-> intervalRef, timers |-> timers]
         IN  IF r1
             THEN [intervalRef |-> 1, timers |-> cleaned.timers + 1]
             ELSE cleaned

\* The commit of new state values: the writes, then the tick effect.
Commit(i1, rem1, r1, m1) ==
    /\ idx' = i1
    /\ remaining' = rem1
    /\ running' = r1
    /\ muted' = m1
    /\ intervalRef' = TickEffect(r1, i1, m1).intervalRef
    /\ timers' = TickEffect(r1, i1, m1).timers

\* window.setInterval(..., 1000) counts its second from the moment it is
\* called: the part of the period that has passed once the event `name` is
\* committed.  A period starts when the interval fires and when the tick
\* effect runs again, which it does when <<running, idx, muted>> changed.
periodAfter(name) ==
    IF name = "tick" \/ <<running', idx', muted'>> # <<running, idx, muted>>
    THEN 0
    ELSE sinceArm

\* The record of an event: its name and the session state it started from;
\* the event's commit settles the interval's period.
Event(name) ==
    /\ lastOp' = name
    /\ prev' = session
    /\ sinceArm' = periodAfter(name)

\* Every event other than togglePlay ends the current run of togglePlay calls.
EndToggleRun == toggles' = 0 /\ before' = NoSnapshot

\* ------------------------------------------------------------------- Init
InitSession_StartsEmpty(c) ==
    /\ config = c
    /\ PROGRAM = programOf(c)
    /\ idx = 0
    /\ remaining = 0
    /\ running = FALSE
    /\ muted = FALSE
    /\ enteredFs = FALSE
    /\ fsEl = FALSE
    /\ intervalRef = 0
    /\ timers = 0
    /\ beepPlays = 0
    /\ threw = FALSE
    /\ sideEffect = "none"
    /\ ticks = 0
    /\ sinceArm = 0
    /\ lastOp = "init"
    /\ prev = [idx |-> 0, remaining |-> 0, running |-> FALSE, muted |-> FALSE]
    /\ toggles = 0
    /\ before = NoSnapshot

\* The state after the component's first render over the program built from
\* the constants c: the useState and useRef initial values; no effect has
\* registered an interval.
InitSession(c) ==
    /\ config = c
    /\ PROGRAM = programOf(c)
    /\ idx = 0
    /\ remaining = PROGRAM[1].duration
    /\ running = FALSE
    /\ muted = FALSE
    /\ enteredFs = FALSE
    /\ fsEl = FALSE
    /\ intervalRef = 0
    /\ timers = 0
    /\ beepPlays = 0
    /\ threw = FALSE
    /\ sideEffect = "none"
    /\ ticks = 0
    /\ sinceArm = 0
    /\ lastOp = "init"
    /\ prev = [idx |-> 0, remaining |-> PROGRAM[1].duration,
               running |-> FALSE, muted |-> FALSE]
    /\ toggles = 0
    /\ before = NoSnapshot

Init == \E c \in Configs : InitSession(c)

\* ---------------------------------------------------------------- goNext
goNextTarget_NoClamp(i) == i + 1

\* const next = Math.min(PROGRAM.length - 1, i + 1)
goNextTarget(i) == Min(lastIndex, i + 1)

goNextRemaining_CurrentStep(next) == durationAt(idx)

\* setRemaining(PROGRAM[next].duration): the value goNext writes.
goNextRemaining(next) == durationAt(next)

\* function goNext() { setIdx((i) => { const next = ...;
\*                       setRemaining(PROGRAM[next].duration); return next; }); }
\* invoked from the keyboard (ArrowRight) or the panel's button (onNext).
GoNext ==
    LET next == goNextTarget(idx)
    IN  /\ IF InRange(next)
           THEN /\ Commit(next, goNextRemaining(next), running, muted)
                /\ threw' = FALSE
           ELSE /\ threw' = TRUE
                /\ UNCHANGED <<idx, remaining, running, muted, intervalRef, timers>>
        /\ beepPlays' = 0
        /\ sideEffect' = "none"
        /\ Event("goNext")
        /\ EndToggleRun
        /\ UNCHANGED <<config, PROGRAM, ticks, enteredFs, fsEl>>

\* ------------------------------------------------------------------ tick
\* The two orders in which React applies the writes of a rollover.  The
\* updater given to setRemaining calls goNext and returns 0; goNext's updater
\* calls setRemaining(PROGRAM[next].duration).  When the outer updater is
\* evaluated at dispatch, its result 0 is queued behind the nested write and
\* is applied last; when it is evaluated while rendering, the nested write is
\* a render-phase update and is applied last.
RolloverOrders == {"updaterLast", "goNextLast"}

isRollover_OneSecondEarly(r) == r <= 2

\* if (r <= 1): the step is complete.
isRollover(r) == r <= 1

beepOnRollover_IgnoresMute(m) == 1

\* if (!muted) beepRef.current?.play(): the number of play() calls of a
\* rollover, with the value of muted the callback's closure holds.
beepOnRollover(m) == IF m THEN 0 ELSE 1

\* How the promise of beepRef.current.play() settles.
PlayOutcomes == {"playResolved", "playRejected"}

onPlayRejected_Pauses(w) == [w EXCEPT !.running = FALSE]

\* .catch(() => {}): what a rejected play() does to the session values w the
\* callback writes.
onPlayRejected(w) == w

\* The interval callback:
\*   setRemaining((r) => { if (r <= 1) { if (!muted) beepRef.current?.play()
\*                                         .catch(() => {});
\*                                       goNext(); return 0; }
\*                         return r - 1; });
TickCallback ==
    IF isRollover(remaining)
    THEN LET next == goNextTarget(idx)
         IN  /\ beepPlays' = beepOnRollover(muted)
             /\ sideEffect' \in IF beepOnRollover(muted) = 0 THEN {"none"}
                                ELSE PlayOutcomes
             /\ IF InRange(next)
                THEN /\ \E order \in RolloverOrders :
                          LET w == [idx |-> next,
                                    remaining |->
                                        IF order = "updaterLast" THEN 0
                                        ELSE goNextRemaining(next),
                                    running |-> running,
                                    muted |-> muted]
                              v == IF sideEffect' = "playRejected"
                                   THEN onPlayRejected(w) ELSE w
                          IN  Commit(v.idx, v.remaining, v.running, v.muted)
                     /\ threw' = FALSE
                ELSE /\ threw' = TRUE
                     /\ UNCHANGED <<idx, remaining, running, muted,
                                    intervalRef, timers>>
    ELSE /\ Commit(idx, remaining - 1, running, muted)
         /\ beepPlays' = 0
         /\ sideEffect' = "none"
         /\ threw' = FALSE

\* One second elapses on the window's clock: the callback of the registered
\* interval runs; with no interval registered nothing runs.
TickEvent ==
    /\ IF timers > 0
       THEN TickCallback
       ELSE /\ UNCHANGED <<idx, remaining, running, muted, intervalRef, timers>>
            /\ beepPlays' = 0
            /\ sideEffect' = "none"
            /\ threw' = FALSE
    /\ Event("tick")
    /\ EndToggleRun
    /\ UNCHANGED <<config, PROGRAM, enteredFs, fsEl>>

Tick == TickEvent /\ UNCHANGED ticks

\* A tick of a running session, counted.
CountedTick ==
    /\ running
    /\ ticks < MaxTicks
    /\ TickEvent
    /\ ticks' = ticks + 1

\* ------------------------------------------------------------ transport
togglePlayUpdater_AlwaysPlay(r) == TRUE

\* (r) => !r
togglePlayUpdater(r) == ~r

\* function togglePlay() { setRunning((r) => !r); }, also the panel's
\* onToggle={() => setRunning(r => !r)}.
TogglePlay ==
    /\ Commit(idx, remaining, togglePlayUpdater(running), muted)
    /\ toggles' = IF toggles = 1 THEN 2 ELSE 1
    /\ before' = IF toggles = 1 THEN before ELSE session
    /\ beepPlays' = 0
    /\ sideEffect' = "none"
    /\ threw' = FALSE
    /\ Event("togglePlay")
    /\ UNCHANGED <<config, PROGRAM, ticks, enteredFs, fsEl>>

restartWrites_KeepsRunning ==
    [idx |-> 0, remaining |-> durationAt(0), running |-> running]

\* The values restart writes:
\*   setIdx(0); setRemaining(PROGRAM[0].duration); setRunning(false);
restartWrites ==
    [idx |-> 0, remaining |-> durationAt(0), running |-> FALSE]

\* function restart() { setIdx(0); setRemaining(PROGRAM[0].duration);
\*                      setRunning(false); }
Restart ==
    /\ Commit(restartWrites.idx, restartWrites.remaining,
              restartWrites.running, muted)
    /\ beepPlays' = 0
    /\ sideEffect' = "none"
    /\ threw' = FALSE
    /\ Event("restart")
    /\ EndToggleRun
    /\ UNCHANGED <<config, PROGRAM, ticks, enteredFs, fsEl>>

ToggleMute_Pauses ==
    /\ Commit(idx, remaining, FALSE, ~muted)
    /\ beepPlays' = 0
    /\ sideEffect' = "none"
    /\ threw' = FALSE
    /\ Event("mute")
    /\ EndToggleRun
    /\ UNCHANGED <<config, PROGRAM, ticks, enteredFs, fsEl>>

\* setMuted(m => !m): the header's button and the "m" key.
ToggleMute ==
    /\ Commit(idx, remaining, running, ~muted)
    /\ beepPlays' = 0
    /\ sideEffect' = "none"
    /\ threw' = FALSE
    /\ Event("mute")
    /\ EndToggleRun
    /\ UNCHANGED <<config, PROGRAM, ticks, enteredFs, fsEl>>

\* ------------------------------------------------------------ fullscreen
\* What the browser does with a fullscreen request: it grants it, rejects it
\* (the promise rejects and the catch swallows it), or knows none of the
\* request functions (the awaited value is undefined).
FullscreenOutcomes == {"granted", "rejected", "unsupported"}

\* async function toggleFullscreen(): the values of document.fullscreenElement
\* and enteredFs once the awaited request has settled.
toggleFullscreen(outcome) ==
    IF ~fsEl
    THEN CASE outcome = "granted"     -> [fsEl |-> TRUE, enteredFs |-> TRUE]
           [] outcome = "rejected"    -> [fsEl |-> fsEl, enteredFs |-> enteredFs]
           [] outcome = "unsupported" -> [fsEl |-> fsEl, enteredFs |-> TRUE]
    ELSE CASE outcome = "granted"     -> [fsEl |-> FALSE, enteredFs |-> FALSE]
           [] outcome = "rejected"    -> [fsEl |-> fsEl, enteredFs |-> enteredFs]
           [] outcome = "unsupported" -> [fsEl |-> fsEl, enteredFs |-> FALSE]

\* The fullscreen buttons and the "f" key.
ToggleFullscreen ==
    /\ \E outcome \in FullscreenOutcomes :
          /\ fsEl' = toggleFullscreen(outcome).fsEl
          /\ enteredFs' = toggleFullscreen(outcome).enteredFs
          /\ sideEffect' = outcome
    /\ beepPlays' = 0
    /\ threw' = FALSE
    /\ UNCHANGED <<config, PROGRAM, ticks, idx, remaining, running, muted,
                    intervalRef, timers>>
    /\ Event("fullscreen")
    /\ EndToggleRun

\* function handleStart() { if (!enteredFs) toggleFullscreen();
\*                          setRunning(true); }
\* The Iniciar button, rendered while !running && idx === 0.
HandleStart ==
    /\ ~running /\ idx = 0
    /\ IF ~enteredFs
       THEN \E outcome \in FullscreenOutcomes :
               /\ fsEl' = toggleFullscreen(outcome).fsEl
               /\ enteredFs' = toggleFullscreen(outcome).enteredFs
               /\ sideEffect' = outcome
       ELSE /\ UNCHANGED <<fsEl, enteredFs>>
            /\ sideEffect' = "none"
    /\ Commit(idx, remaining, TRUE, muted)
    /\ beepPlays' = 0
    /\ threw' = FALSE
    /\ Event("handleStart")
    /\ EndToggleRun
    /\ UNCHANGED <<config, PROGRAM, ticks>>

\* ------------------------------------------------------------------ specs
Next ==
    \/ Tick
    \/ TogglePlay
    \/ GoNext
    \/ Restart
    \/ ToggleMute
    \/ ToggleFullscreen
    \/ HandleStart

Spec == Init /\ [][Next]_vars

\* A session started with the Iniciar button and left running: the only
\* events are the start and the interval's ticks, and the interval keeps
\* firing once a second.
NextRun ==
    \/ HandleStart
    \/ Tick

SpecRun == Init /\ [][NextRun]_vars /\ WF_vars(HandleStart) /\ WF_vars(Tick)

\* The session over the program built from the source's constants, started
\* with the Iniciar button and left running, its ticks counted.
NextBuiltin ==
    \/ HandleStart
    \/ CountedTick

SpecBuiltin == InitSession(BuiltinConfig) /\ [][NextBuiltin]_vars

\* Part of a second passes with the interval registered and its period not
\* yet over: no callback runs.
Wait ==
    /\ timers > 0
    /\ sinceArm < SubSteps - 1
    /\ sinceArm' = sinceArm + 1
    /\ lastOp' = "wait"
    /\ prev' = session
    /\ beepPlays' = 0
    /\ sideEffect' = "none"
    /\ threw' = FALSE
    /\ UNCHANGED <<config, PROGRAM, idx, remaining, running, muted, enteredFs,
                   fsEl, intervalRef, timers, ticks, toggles, before>>

\* The period of the registered interval ends: its callback runs.
Fire ==
    /\ timers > 0
    /\ sinceArm = SubSteps - 1
    /\ Tick

\* The session on a clock observed SubSteps times a second: the interval
\* fires one second after it was armed or last fired, and the user's events
\* fall anywhere in between.
NextClock ==
    \/ Wait
    \/ Fire
    \/ TogglePlay
    \/ GoNext
    \/ Restart
    \/ ToggleMute
    \/ ToggleFullscreen
    \/ HandleStart

SpecClock == Init /\ [][NextClock]_vars

\* ------------------------------------------------------- program building
\* The module is loaded with the constants of the configuration; nothing is
\* built or rendered yet.
InitBuild ==
    /\ config \in BuildInputs
    /\ PROGRAM = << >>
    /\ idx = 0
    /\ remaining = 0
    /\ running = FALSE
    /\ muted = FALSE
    /\ enteredFs = FALSE
    /\ fsEl = FALSE
    /\ intervalRef = 0
    /\ timers = 0
    /\ beepPlays = 0
    /\ threw = FALSE
    /\ sideEffect = "none"
    /\ ticks = 0
    /\ sinceArm = 0
    /\ lastOp = "load"
    /\ prev = [idx |-> 0, remaining |-> 0, running |-> FALSE, muted |-> FALSE]
    /\ toggles = 0
    /\ before = NoSnapshot

\* const PROGRAM = buildProgram(): buildProgram checks nothing and raises
\* nothing, whatever the lists and the number of rounds.
Build ==
    /\ lastOp = "load"
    /\ PROGRAM' = programOf(config)
    /\ threw' = FALSE
    /\ lastOp' = "buildProgram"
    /\ UNCHANGED <<config, idx, remaining, running, muted, enteredFs, fsEl,
                   intervalRef, timers, beepPlays, sideEffect, ticks,
                   sinceArm, prev, toggles, before>>

\* The first render of CalisthenicsRoutineApp: useState(0),
\* useState(PROGRAM[0].duration), useState(false), ...  Over an empty program
\* PROGRAM[0] is undefined and reading its duration raises a TypeError.
Mount ==
    /\ lastOp = "buildProgram"
    /\ IF Len(PROGRAM) = 0
       THEN /\ threw' = TRUE
            /\ lastOp' = "mountFailed"
            /\ UNCHANGED <<idx, remaining, prev>>
       ELSE /\ threw' = FALSE
            /\ lastOp' = "init"
            /\ idx' = 0
            /\ remaining' = PROGRAM[1].duration
            /\ prev' = [idx |-> 0, remaining |-> PROGRAM[1].duration,
                        running |-> FALSE, muted |-> FALSE]
    /\ UNCHANGED <<config, PROGRAM, running, muted, enteredFs, fsEl,
                   intervalRef, timers, beepPlays, sideEffect, ticks,
                   sinceArm, toggles, before>>

NextBuild ==
    \/ Build
    \/ Mount

SpecBuild == InitBuild /\ [][NextBuild]_vars

\* ================================================================ claims
\* A session is finished when the last step has no time left.
finished == idx = lastIndex /\ remaining = 0

\* C1: every tick delivered while running, at every step index including the
\* last one, increases elapsedTotal by exactly 1 (so it never decreases, also
\* across a rollover).
C1_TickAddsOneSecond ==
    [][(lastOp' = "tick" /\ running) => elapsedTotal' = elapsedTotal + 1]_vars

\* C2: a session started from the initial state and left running ends, after
\* enough ticks, at the last index with no time left, and there elapsedTotal
\* is TOTAL_SECONDS and totalProgress is 1.
C2_RunEndsExhausted ==
    <>(/\ finished
       /\ elapsedTotal = TOTAL_SECONDS
       /\ totalProgress.num = totalProgress.den)

\* C3: a tick delivered while running with at most one second left at a
\* non-last index i ends at index i + 1 with the whole duration of step i + 1
\* remaining, in whichever order the rollover's writes are applied.
C3_RolloverStartsFull ==
    [][(lastOp' = "tick" /\ running /\ remaining <= 1 /\ idx < lastIndex)
       => (idx' = idx + 1 /\ remaining' = durationAt(idx + 1))]_vars

\* C4: a tick delivered while paused changes nothing of the session and plays
\* nothing, and no interval stays registered once the session is paused, so no
\* callback registered before the pause can act later.
C4_PausedTickIgnored ==
    [][/\ (lastOp' = "tick" /\ ~running)
          => (session' = session /\ beepPlays' = 0)
       /\ ~running' => (timers' = 0 /\ intervalRef' = 0)]_vars

\* C4 witness: a tick arrived in a session paused in the middle of a step.
C4_Witness ==
    /\ lastOp = "tick" /\ ~prev.running /\ ~running
    /\ remaining > 0 /\ remaining < durationAt(idx)

\* C5: a tick delivered while running with more than one second left takes one
\* second off remaining, leaves idx, running and muted alone and plays no cue.
C5_DecrementTick ==
    [][(lastOp' = "tick" /\ running /\ remaining > 1)
       => /\ remaining' = remaining - 1
          /\ idx' = idx /\ running' = running /\ muted' = muted
          /\ beepPlays' = 0]_vars

\* C5 witness: a running, unmuted session just ticked with more than one
\* second left.
C5_Witness ==
    /\ lastOp = "tick" /\ prev.running /\ ~prev.muted /\ prev.remaining > 1
    /\ remaining = prev.remaining - 1

\* C6: at the last index, goNext (the manual skip or the rollover of a tick)
\* leaves idx at the last index and raises no error, and the index never
\* leaves 0..lastIndex.
C6_GoNextClampedAtEnd ==
    [][/\ (lastOp' \in {"goNext", "tick"} /\ idx = lastIndex)
          => (idx' = lastIndex /\ ~threw')
       /\ InRange(idx)' /\ ~threw']_vars

\* C6 witness: the rollover of a tick happened at the last index.
C6_Witness ==
    /\ lastOp = "tick" /\ prev.running /\ prev.idx = lastIndex
    /\ prev.remaining <= 1 /\ idx = lastIndex /\ ~threw

\* C7: once the last step runs out, remaining is 0 and the session stays
\* finished under every tick and every goNext; only restart leaves that state.
C7_FinishedStaysFinished ==
    [][/\ (lastOp' = "tick" /\ running /\ idx = lastIndex /\ remaining <= 1)
          => remaining' = 0
       /\ (finished /\ lastOp' # "restart") => finished']_vars

\* C8: a manual goNext at a non-last index i, running or paused and with any
\* time remaining, ends at index i + 1 with the whole duration of step i + 1
\* remaining and leaves running and muted alone.
C8_ManualSkip ==
    [][(lastOp' = "goNext" /\ idx < lastIndex)
       => /\ idx' = idx + 1
          /\ remaining' = durationAt(idx + 1)
          /\ running' = running /\ muted' = muted]_vars

\* C8 witness: a running session was skipped forward in the middle of a step.
C8_Witness ==
    /\ lastOp = "goNext" /\ prev.idx < lastIndex /\ prev.running
    /\ prev.remaining > 0 /\ prev.remaining < durationAt(prev.idx)
    /\ idx = prev.idx + 1

\* C9: restart, from every reachable state, yields index 0, the whole duration
\* of step 0 remaining and a paused session, and leaves muted alone.
C9_Restart ==
    [][lastOp' = "restart"
       => /\ idx' = 0
          /\ remaining' = durationAt(0)
          /\ running' = FALSE
          /\ muted' = muted]_vars

\* C9 witness: a running, muted session past the first step was restarted.
C9_Witness ==
    /\ lastOp = "restart" /\ prev.idx > 0 /\ prev.running /\ prev.muted
    /\ prev.remaining < durationAt(prev.idx)

\* C10: togglePlay flips running and changes neither idx nor remaining, and
\* two consecutive calls bring the session back to the state before the first.
C10_TogglePlayTwice ==
    [][/\ lastOp' = "togglePlay"
          => (running' = ~running /\ idx' = idx /\ remaining' = remaining)
       /\ toggles' = 2 => session' = before']_vars

\* C10 witness: a session running in the middle of a step was toggled twice.
C10_Witness ==
    /\ lastOp = "togglePlay" /\ toggles = 2 /\ running
    /\ remaining > 0 /\ remaining < durationAt(idx)

\* C11: in every state reachable by ticks, togglePlay, goNext, restart, mute
\* toggles and handleStart, 0 <= idx < PROGRAM.length and
\* 0 <= remaining <= PROGRAM[idx].duration.
C11_SessionInBounds ==
    /\ 0 <= idx /\ idx < Len(PROGRAM)
    /\ 0 <= remaining /\ remaining <= durationAt(idx)

\* C11 witness: a skip moved a running session from a longer step to a shorter
\* one, whose whole duration now remains.
C11_Witness ==
    /\ lastOp = "goNext" /\ prev.running /\ idx = prev.idx + 1
    /\ durationAt(idx) < durationAt(prev.idx)
    /\ remaining = durationAt(idx)

\* C12: the cue is played by an event exactly when the event is a rollover
\* tick (running, at most one second left) and muted is false at that moment,
\* and then once: never by a decrement tick, a goNext, a restart or any other
\* event, and never while muted.
C12_CueOnlyOnUnmutedRollover ==
    beepPlays = IF /\ lastOp = "tick" /\ prev.running
                   /\ prev.remaining <= 1 /\ ~prev.muted
                THEN 1 ELSE 0

\* C12 witness: a rollover tick of a muted session played nothing.
C12_Witness ==
    /\ lastOp = "tick" /\ prev.running /\ prev.remaining <= 1 /\ prev.muted
    /\ idx = prev.idx + 1 /\ beepPlays = 0

\* C13: toggling mute flips muted and leaves idx, remaining and running as
\* they were, in every state.
C13_MuteChangesOnlyMuted ==
    lastOp = "mute"
    => /\ idx = prev.idx
       /\ remaining = prev.remaining
       /\ running = prev.running
       /\ muted = ~prev.muted

\* C13 witness: a session running in the middle of a step was muted.
C13_Witness ==
    /\ lastOp = "mute" /\ prev.running /\ muted
    /\ remaining > 0 /\ remaining < durationAt(idx)

\* C14: a new session starts at index 0 with the whole duration of step 0
\* remaining, paused and unmuted, so elapsedTotal is 0, and no interval is
\* registered.
C14_InitialSession ==
    lastOp = "init"
    => /\ idx = 0
       /\ remaining = durationAt(0)
       /\ ~running /\ ~muted
       /\ elapsedTotal = 0
       /\ timers = 0 /\ intervalRef = 0

\* C14 witness: a new session over a program whose first step lasts more than
\* a second.
C14_Witness ==
    /\ lastOp = "init" /\ idx = 0 /\ durationAt(0) > 1
    /\ remaining = durationAt(0)

\* The configuration is valid: no exercise list is empty and there is at
\* least one strength round.
ValidConfig(c) ==
    /\ Len(c.warmup) >= 1 /\ Len(c.strengthCore) >= 1 /\ Len(c.cooldown) >= 1
    /\ c.strengthRounds >= 1

\* buildProgram has run.
built == lastOp # "load"

C16_ProgramLength ==
    (built /\ ValidConfig(config))
    => Len(PROGRAM) = Len(config.warmup)
                      + Len(config.strengthCore) * config.strengthRounds
                      + Len(config.cooldown)

\* C16 witness: a program was built from two strength exercises repeated for
\* two rounds between non-empty warm-up and cool-down lists.
C16_Witness ==
    /\ lastOp = "buildProgram" /\ ValidConfig(config)
    /\ Len(config.strengthCore) = 2 /\ config.strengthRounds = 2
    /\ Len(PROGRAM) >= 6

\* The steps of a phase, in program order.
PhaseSteps(phase) == SelectSeq(PROGRAM, LAMBDA st : st.phase = phase)

\* C17: in the built program, the indexInPhase values of each phase's steps,
\* read in program order, are 1, 2, ..., totalInPhase, and totalInPhase is the
\* number of steps of the phase; the strength phase is numbered across its
\* rounds, not per round.
C17_PhaseNumbering ==
    built
    => \A phase \in {"Calentamiento", "Fuerza", "Estiramientos"} :
          \A j \in 1..Len(PhaseSteps(phase)) :
             /\ PhaseSteps(phase)[j].indexInPhase = j
             /\ PhaseSteps(phase)[j].totalInPhase = Len(PhaseSteps(phase))

\* C17 witness: a built program whose strength phase spans two rounds of two
\* exercises, its last strength step numbered 4 of 4.
C17_Witness ==
    /\ lastOp = "buildProgram"
    /\ Len(config.strengthCore) = 2 /\ config.strengthRounds = 2
    /\ Len(PhaseSteps("Fuerza")) = 4
    /\ PhaseSteps("Fuerza")[4].indexInPhase = 4

\* Step st is an occurrence of exercise e in the given phase.
IsStepOf(st, e, phase) ==
    st.key = e.key /\ st.duration = e.duration /\ st.phase = phase

\* C18: the built program is the warm-up steps in list order, then the
\* strength block, whose step at offset r * len(strengthCore) + i is strength
\* exercise i for every round r, then the cool-down steps in list order.
C18_PhaseOrder ==
    built
    => LET nw == Len(config.warmup)
           ns == Len(config.strengthCore)
           nc == Len(config.cooldown)
           rounds == config.strengthRounds
       IN  /\ Len(PROGRAM) = nw + ns * rounds + nc
           /\ \A i \in 1..nw :
                 IsStepOf(PROGRAM[i], config.warmup[i], "Calentamiento")
           /\ \A r \in 0..(rounds - 1) : \A i \in 1..ns :
                 IsStepOf(PROGRAM[nw + r * ns + i], config.strengthCore[i],
                          "Fuerza")
           /\ \A i \in 1..nc :
                 IsStepOf(PROGRAM[nw + ns * rounds + i], config.cooldown[i],
                          "Estiramientos")

\* C18 witness: a program built from lists of two different exercises each,
\* with two strength rounds.
C18_Witness ==
    /\ lastOp = "buildProgram" /\ config.strengthRounds = 2
    /\ Len(config.warmup) = 2 /\ Len(config.strengthCore) = 2
    /\ Len(config.cooldown) = 2
    /\ config.strengthCore[1] # config.strengthCore[2]
    /\ config.warmup[1] # config.cooldown[1]
    /\ Len(PROGRAM) = 8

\* C19: a failing side effect changes nothing of the session and does not stop
\* the timer.  A rollover tick whose play() rejects ends where one whose play()
\* resolves ends: at the next index (the last one at the end), still running,
\* with 0 or the step's whole duration remaining, the interval registered.
\* handleStart and toggleFullscreen with a rejected or unsupported request
\* leave idx and remaining alone, handleStart still setting running.
C19_SideEffectFailuresSwallowed ==
    /\ (lastOp = "tick" /\ sideEffect = "playRejected")
       => /\ ~threw
          /\ idx = Min(lastIndex, prev.idx + 1)
          /\ remaining \in {0, durationAt(idx)}
          /\ running = prev.running /\ muted = prev.muted
          /\ timers = 1
    /\ (lastOp = "handleStart" /\ sideEffect \in {"rejected", "unsupported"})
       => /\ ~threw
          /\ idx = prev.idx /\ remaining = prev.remaining
          /\ running /\ timers = 1
    /\ (lastOp = "fullscreen" /\ sideEffect \in {"rejected", "unsupported"})
       => (~threw /\ session = prev)

\* C19 witness: the cue of a rollover tick was rejected in the middle of the
\* program.
C19_Witness ==
    /\ lastOp = "tick" /\ sideEffect = "playRejected" /\ beepPlays = 1
    /\ prev.idx > 0 /\ idx = prev.idx + 1 /\ running

\* C20: building from an empty exercise list or from fewer than one round
\* fails at once with a configuration error: no program is produced and no
\* session is started over it.
C20_InvalidConfigRejected ==
    (built /\ ~ValidConfig(config))
    => (threw /\ PROGRAM = << >> /\ lastOp # "init")

\* C21: in every reachable state the elapsed seconds lie in
\* 0..TOTAL_SECONDS, so the progress fraction min(1, elapsed / total) lies in
\* [0, 1], and the fraction is 1 only when the elapsed seconds equal the total.
C21_ProgressInUnitInterval ==
    /\ 0 <= elapsedTotal
    /\ elapsedTotal <= TOTAL_SECONDS
    /\ totalProgress.den > 0
    /\ 0 <= totalProgress.num
    /\ totalProgress.num <= totalProgress.den
    /\ totalProgress.num = totalProgress.den => elapsedTotal = TOTAL_SECONDS

\* A tick of a running session has brought the fraction to 1.
C21_Witness ==
    /\ lastOp = "tick"
    /\ prev.running
    /\ totalProgress.num = totalProgress.den
    /\ elapsedTotal = TOTAL_SECONDS

\* C22: the upcoming-steps view at index idx is exactly the steps at the
\* indices idx+1 .. min(idx+5, lastIndex) in program order: at most five of
\* them, and none at the last index.  The view is a function of PROGRAM and
\* idx alone and writes no state.
C22_UpcomingSteps ==
    LET up == UpcomingList(idx)
        n  == Min(idx + 5, lastIndex) - idx
    IN  /\ Len(up) = n
        /\ n <= 5
        /\ \A k \in 1..n : up[k] = PROGRAM[idx + k + 1]
        /\ idx = lastIndex => up = << >>

\* The view cut at five steps with more steps of the program left behind it.
C22_Witness ==
    /\ idx > 0
    /\ lastIndex > idx + 5
    /\ Len(UpcomingList(idx)) = 5
    /\ UpcomingList(idx)[5] = PROGRAM[idx + 6]

C24_ElapsedNeverDecreases ==
    [][lastOp' \in {"tick", "togglePlay", "goNext", "mute"}
       => elapsedTotal' >= elapsedTotal]_vars

\* C25: toggling mute while running neither cancels nor postpones the pending
\* tick: the part of the interval's second that has passed is the same after
\* the toggle as before it.
C25_MuteKeepsPendingTick ==
    [][(lastOp' = "mute" /\ running) => sinceArm' = sinceArm]_vars

\* C26: after any sequence of events at most one interval timer is
\* registered, one is registered exactly when running holds, and the
\* component's reference holds it exactly then.
C26_OneIntervalWhileRunning ==
    /\ timers <= 1
    /\ (timers = 1) <=> running
    /\ intervalRef = timers

\* A rollover of a running session has re-armed the interval.
C26_Witness ==
    /\ lastOp = "tick"
    /\ prev.running
    /\ idx = prev.idx + 1
    /\ timers = 1

\* C27: a tick never changes running; running changes only through
\* togglePlay (which flips it), restart (which clears it) and handleStart
\* (which sets it); so a tick that ends the last step leaves the session
\* running with its interval registered.
C27_RunningChangesOnlyByTransport ==
    /\ lastOp = "tick" => running = prev.running
    /\ running # prev.running => lastOp \in {"togglePlay", "restart", "handleStart"}
    /\ lastOp = "togglePlay" => running = ~prev.running
    /\ lastOp = "restart" => ~running
    /\ lastOp = "handleStart" => running
    /\ (/\ lastOp = "tick" /\ prev.running
        /\ prev.idx = lastIndex /\ prev.remaining <= 1)
       => running /\ timers = 1

\* A tick has ended the last step of a running session.
C27_Witness ==
    /\ lastOp = "tick"
    /\ prev.running
    /\ prev.idx = lastIndex
    /\ prev.remaining <= 1
    /\ running
    /\ timers > 0

====
